---- MODULE Spec2Model ----
(***************************************************************************)
(* The citation-graph cache gate of pages/AllPapers.tsx: the seed DOIs     *)
(* derived from the loaded papers, the cache signature, the localStorage   *)
(* slot read by tryLoadCache and written by saveCache, and buildOrLoad     *)
(* with its pending buildCitationGraph calls.                              *)
(*                                                                         *)
(* A string is a sequence of one-character strings, so that trim, sort     *)
(* and join act on the characters as the JavaScript does.                  *)
(***************************************************************************)
EXTENDS Integers, Sequences, FiniteSets, TLC

\* ------------------------------------------------------------------ bounds
\* Longest list of papers given to the signature computation (SpecSig).
MaxPapers == 3
\* Number of buildCitationGraph calls started in one behaviour.
MaxBuilds == 2
\* Number of times loadPapers resolves (setPapers is called) in one behaviour.
MaxLoads == 2
\* Number of page reloads in one behaviour.
MaxReloads == 1

\* ----------------------------------------------------------------- strings
\* UTF-16 code unit of a character (the order Array.prototype.sort uses).
CharCode(c) ==
  CASE c = " " -> 32
    [] c = "a" -> 97
    [] c = "b" -> 98
    [] c = "r" -> 114
    [] c = "|" -> 124

IsWhitespace(c) == c = " "

RECURSIVE TrimStart(_)
TrimStart(s) ==
  IF s # <<>> /\ IsWhitespace(Head(s)) THEN TrimStart(Tail(s)) ELSE s

RECURSIVE TrimEnd(_)
TrimEnd(s) ==
  IF s # <<>> /\ IsWhitespace(s[Len(s)])
  THEN TrimEnd(SubSeq(s, 1, Len(s) - 1))
  ELSE s

\* String.prototype.trim
Trim(s) == TrimEnd(TrimStart(s))

\* a < b in the code-unit order of the default sort comparator
RECURSIVE StrLess(_, _)
StrLess(a, b) ==
  IF a = <<>> THEN b # <<>>
  ELSE IF b = <<>> THEN FALSE
  ELSE IF CharCode(Head(a)) # CharCode(Head(b))
       THEN CharCode(Head(a)) < CharCode(Head(b))
       ELSE StrLess(Tail(a), Tail(b))

RECURSIVE InsertSorted(_, _)
InsertSorted(x, sorted) ==
  IF sorted = <<>> THEN <<x>>
  ELSE IF StrLess(Head(sorted), x)
       THEN <<Head(sorted)>> \o InsertSorted(x, Tail(sorted))
       ELSE <<x>> \o sorted

\* Array.prototype.sort() with the default comparator, on a copy
RECURSIVE SortStrings(_)
SortStrings(xs) ==
  IF xs = <<>> THEN <<>> ELSE InsertSorted(Head(xs), SortStrings(Tail(xs)))

\* Array.prototype.join(sep)
RECURSIVE Join(_, _)
Join(xs, sep) ==
  IF xs = <<>> THEN <<>>
  ELSE IF Len(xs) = 1 THEN xs[1]
  ELSE xs[1] \o sep \o Join(Tail(xs), sep)

Range(xs) == {xs[i] : i \in DOMAIN xs}

\* Array.from(new Set(xs)): the first occurrence of each element, in order
RECURSIVE Dedup(_)
Dedup(xs) ==
  IF xs = <<>> THEN <<>>
  ELSE LET front == Dedup(SubSeq(xs, 1, Len(xs) - 1))
           x == xs[Len(xs)]
       IN IF x \in Range(front) THEN front ELSE Append(front, x)

\* ------------------------------------------------------- seeds and signature
\* A paper is modelled by its doi field; <<>> is a paper whose doi is missing
\* or empty (both are falsy in `p.doi && p.doi.trim()`).
RECURSIVE TrimmedDois(_)
TrimmedDois(ps) ==
  IF ps = <<>> THEN <<>>
  ELSE IF ps[1] # <<>> /\ Trim(ps[1]) # <<>>
       THEN <<Trim(ps[1])>> \o TrimmedDois(Tail(ps))
       ELSE TrimmedDois(Tail(ps))

\* seedDois of the useMemo over papers
SeedDoisOf(ps) == Dedup(TrimmedDois(ps))

CacheSigUnsorted(seeds) == Join(seeds, <<"|">>)

\* cacheSig of the useMemo over seedDois
CacheSigOf(seeds) == Join(SortStrings(seeds), <<"|">>)

\* ------------------------------------------------------------ graph values
\* A value of type Graph | null. hasNodes / hasLinks say whether the property
\* is present (an array, empty or not, is truthy; a missing property is not).
NullGraph ==
  [kind |-> "null", hasNodes |-> FALSE, nodes |-> <<>>,
   hasLinks |-> FALSE, links |-> <<>>]

MkGraph(nodes, links) ==
  [kind |-> "obj", hasNodes |-> TRUE, nodes |-> nodes,
   hasLinks |-> TRUE, links |-> links]

Node(id, depth) == [id |-> id, depth |-> depth]

RefDoi == <<"r">>

\* The graphs a buildCitationGraph call for `seeds` may resolve with: the
\* seeds alone (no reference found) or the seeds and one cited paper.
CrawlGraphs(seeds) ==
  LET seedNodes == [i \in DOMAIN seeds |-> Node(seeds[i], 0)]
  IN {MkGraph(seedNodes, <<>>)} \cup
     (IF seeds = <<>> THEN {}
      ELSE {MkGraph(Append(seedNodes, Node(RefDoi, 1)),
                    <<[source |-> seeds[1], target |-> RefDoi]>>)})

\* The values a buildCitationGraph call may reject with: an Error with a
\* message, and a value without one.
CrawlErrors ==
  { [hasMessage |-> TRUE, message |-> "Crossref unavailable"],
    [hasMessage |-> FALSE, message |-> ""] }

NullErr == [set |-> FALSE, msg |-> ""]

\* e?.message || "Failed to build citation network"
ErrMessage(e) ==
  IF e.hasMessage /\ e.message # ""
  THEN [set |-> TRUE, msg |-> e.message]
  ELSE [set |-> TRUE, msg |-> "Failed to build citation network"]

\* What a throwing localStorage.setItem raises (a DOMException).
QuotaError == [hasMessage |-> TRUE, message |-> "QuotaExceededError"]

\* --------------------------------------------------------------- the store
CACHE_KEY == "citationGraph:v2"

\* The string held under a key, by what JSON.parse makes of it:
\*   absent   getItem returns null (or the empty string: !raw)
\*   garbage  JSON.parse throws           jnull    the JSON text null
\*   obj      a JSON object; sig and graph as parsed (hasSig: sig is present)
Absent == [kind |-> "absent", hasSig |-> FALSE, sig |-> <<>>, graph |-> NullGraph]
Garbage == [kind |-> "garbage", hasSig |-> FALSE, sig |-> <<>>, graph |-> NullGraph]
JsonNull == [kind |-> "jnull", hasSig |-> FALSE, sig |-> <<>>, graph |-> NullGraph]

\* JSON.stringify({ sig, graph })
Stringify(sig, g) == [kind |-> "obj", hasSig |-> TRUE, sig |-> sig, graph |-> g]

\* graph?.nodes && graph?.links
ShapeOk(g) == g.kind = "obj" /\ g.hasNodes /\ g.hasLinks

TryLoadCacheAnySig(store, sig, getItemThrows) ==
  IF getItemThrows THEN NullGraph
  ELSE LET raw == store[CACHE_KEY]
       IN IF raw.kind = "obj" /\ ShapeOk(raw.graph) THEN raw.graph ELSE NullGraph

TryLoadCacheNoShapeCheck(store, sig, getItemThrows) ==
  IF getItemThrows THEN NullGraph
  ELSE LET raw == store[CACHE_KEY]
       IN IF raw.kind = "obj" /\ raw.hasSig /\ raw.sig = sig /\ raw.graph.kind = "obj"
          THEN raw.graph ELSE NullGraph

\* tryLoadCache: the cached graph, or NullGraph for null
TryLoadCache(store, sig, getItemThrows) ==
  IF getItemThrows THEN NullGraph                      \* catch
  ELSE LET raw == store[CACHE_KEY]
       IN IF raw.kind = "absent" THEN NullGraph             \* !raw
          ELSE IF raw.kind = "garbage" THEN NullGraph   \* JSON.parse throws
          ELSE IF raw.kind = "jnull" THEN NullGraph     \* destructuring throws
          ELSE IF raw.hasSig /\ raw.sig = sig /\ ShapeOk(raw.graph)
               THEN raw.graph
               ELSE NullGraph

SaveCacheNoSig(store, sig, g, setItemThrows) ==
  IF setItemThrows
  THEN [store |-> store, threw |-> FALSE]
  ELSE [store |-> [store EXCEPT ![CACHE_KEY] =
                     [kind |-> "obj", hasSig |-> FALSE, sig |-> <<>>, graph |-> g]],
        threw |-> FALSE]

SaveCacheNoCatch(store, sig, g, setItemThrows) ==
  IF setItemThrows
  THEN [store |-> store, threw |-> TRUE]
  ELSE [store |-> [store EXCEPT ![CACHE_KEY] = Stringify(sig, g)], threw |-> FALSE]

\* saveCache: the store afterwards, and whether an exception escapes
SaveCache(store, sig, g, setItemThrows) ==
  IF setItemThrows
  THEN [store |-> store, threw |-> FALSE]               \* catch: ignored
  ELSE [store |-> [store EXCEPT ![CACHE_KEY] = Stringify(sig, g)], threw |-> FALSE]

BuildOrLoadSyncIgnoreForce(force, seeds, sig, store, getItemThrows) ==
  IF Len(seeds) = 0
  THEN [path |-> "empty", read |-> FALSE, graph |-> NullGraph]
  ELSE LET cached == TryLoadCache(store, sig, getItemThrows)
       IN IF cached.kind = "obj"
          THEN [path |-> "hit", read |-> TRUE, graph |-> cached]
          ELSE [path |-> "crawl", read |-> TRUE, graph |-> NullGraph]

BuildOrLoadSyncNoEmptyCheck(force, seeds, sig, store, getItemThrows) ==
  IF ~force
  THEN LET cached == TryLoadCache(store, sig, getItemThrows)
       IN IF cached.kind = "obj"
          THEN [path |-> "hit", read |-> TRUE, graph |-> cached]
          ELSE [path |-> "crawl", read |-> TRUE, graph |-> NullGraph]
  ELSE [path |-> "crawl", read |-> FALSE, graph |-> NullGraph]

\* buildOrLoad up to its await: the path taken, whether tryLoadCache was
\* called, and the cached graph of a hit
BuildOrLoadSync(force, seeds, sig, store, getItemThrows) ==
  IF Len(seeds) = 0
  THEN [path |-> "empty", read |-> FALSE, graph |-> NullGraph]
  ELSE IF ~force
       THEN LET cached == TryLoadCache(store, sig, getItemThrows)
            IN IF cached.kind = "obj"
               THEN [path |-> "hit", read |-> TRUE, graph |-> cached]
               ELSE [path |-> "crawl", read |-> TRUE, graph |-> NullGraph]
       ELSE [path |-> "crawl", read |-> FALSE, graph |-> NullGraph]

\* ------------------------------------------------------------------- inputs
DoiA == <<"a">>
DoiB == <<"b">>
DoiAB == <<"a", "|", "b">>

\* The doi fields a paper of the CSV may carry.
RawDois == {<<>>, DoiA, DoiB, <<" ", "a", " ">>, DoiAB}

\* All paper lists of at most n papers.
PaperLists(n) == UNION {[1..k -> RawDois] : k \in 0..n}

\* The paper lists loadPapers resolves with in the page model.
Catalogues ==
  { << <<>> >>,
    <<DoiA>>,
    <<DoiA, DoiB>>,
    <<<<"b", " ">>, DoiA, DoiB>>,
    <<DoiAB>> }

\* What the localStorage slot may hold when the page is first opened: nothing,
\* or what an earlier session or another writer of the origin left there.
InitialStores ==
  { Absent, Garbage, JsonNull,
    [kind |-> "obj", hasSig |-> TRUE, sig |-> DoiA, graph |-> NullGraph],
    [kind |-> "obj", hasSig |-> TRUE, sig |-> DoiA,
     graph |-> [kind |-> "obj", hasNodes |-> TRUE, nodes |-> <<Node(DoiA, 0)>>,
                hasLinks |-> FALSE, links |-> <<>>]] }

\* -------------------------------------------------------------------- state
VARIABLES
  papers,        \* useState<Paper[]>: the doi field of each paper
  seedDois,      \* useMemo: trimmed, deduplicated DOIs of papers
  cacheSig,      \* useMemo: the signature of seedDois
  graph,         \* useState<Graph | null>
  loadingGraph,  \* useState(false)
  graphErr,      \* useState<string | null>
  localStorage,  \* window.localStorage: key -> stored string
  inflight,      \* pending buildCitationGraph calls, oldest first, each with
                 \* the seedDois and cacheSig its buildOrLoad closed over
  started,       \* number of buildCitationGraph calls started so far
  loads,         \* setPapers calls so far
  reloads,       \* page reloads so far
  slotOrigin,    \* history: the build whose saveCache wrote the slot (id 0:
                 \* not written by a build of this behaviour) and its seeds
  last           \* history: what the last step did

\* One run of buildCitationGraph (the crawler of lib/citationGraph.ts).
VARIABLES
  crawlSeeds,      \* seedDois argument
  maxDepth,        \* maxDepth argument
  maxRefsPerNode,  \* maxRefsPerNode argument
  nodes,           \* the nodes found so far, in discovery order
  links,           \* the links found so far
  visited,         \* identifiers already turned into nodes
  frontier,        \* queue of (id, depth) entries awaiting expansion
  status,          \* "idle", "running", "done", or "error" (the call rejected)
  failed,          \* history: identifiers whose lookup failed
  enqueued,        \* history: every identifier put on the frontier, in order
  dequeued         \* history: every identifier taken off the frontier, in order

pageVars ==
  <<papers, seedDois, cacheSig, graph, loadingGraph, graphErr, localStorage,
    inflight, started, loads, reloads, slotOrigin, last>>

crawlVars ==
  <<crawlSeeds, maxDepth, maxRefsPerNode, nodes, links, visited, frontier,
    status, failed, enqueued, dequeued>>

vars == <<pageVars, crawlVars>>

\* No crawl is being stepped: the page model treats a pending call as one
\* step that settles.
CrawlIdle ==
  /\ crawlSeeds = <<>>
  /\ maxDepth = 0
  /\ maxRefsPerNode = 0
  /\ nodes = <<>>
  /\ links = <<>>
  /\ visited = {}
  /\ frontier = <<>>
  /\ status = "idle"
  /\ failed = {}
  /\ enqueued = <<>>
  /\ dequeued = <<>>

NoOrigin == [id |-> 0, seeds |-> <<>>]

Step(op, force, path, read, getItemThrew, setItemThrew, id) ==
  [op |-> op, force |-> force, path |-> path, read |-> read,
   getItemThrew |-> getItemThrew, setItemThrew |-> setItemThrew, id |-> id]

\* The page as first rendered and after its mount effects: papers is empty, so
\* buildOrLoad(false) took the empty-seeds return.
Init ==
  /\ papers = <<>>
  /\ seedDois = SeedDoisOf(<<>>)
  /\ cacheSig = CacheSigOf(SeedDoisOf(<<>>))
  /\ graph = NullGraph
  /\ loadingGraph = FALSE
  /\ graphErr = NullErr
  /\ localStorage \in [{CACHE_KEY} -> InitialStores]
  /\ inflight = <<>>
  /\ started = 0
  /\ loads = 0
  /\ reloads = 0
  /\ slotOrigin = NoOrigin
  /\ last = Step("mount", FALSE, "empty", FALSE, FALSE, FALSE, 0)
  /\ CrawlIdle

\* One call buildOrLoad(force) by the render whose seedDois and cacheSig are
\* `seeds` and `sig`, up to its await or return, on a page whose graph,
\* loadingGraph and pending calls are g0, loading0 and pending0.
BuildOrLoadFrom(op, force, seeds, sig, getItemThrows, g0, loading0, pending0) ==
  LET r == BuildOrLoadSync(force, seeds, sig, localStorage, getItemThrows)
  IN /\ r.path = "crawl" => started < MaxBuilds
     /\ graph' = CASE r.path = "empty" -> NullGraph
                   [] r.path = "hit" -> r.graph
                   [] OTHER -> g0
     /\ graphErr' = NullErr
     /\ loadingGraph' = CASE r.path = "empty" -> loading0
                          [] r.path = "hit" -> FALSE
                          [] OTHER -> TRUE
     /\ inflight' = IF r.path = "crawl"
                    THEN Append(pending0, [id |-> started + 1, seedDois |-> seeds,
                                           cacheSig |-> sig, force |-> force])
                    ELSE pending0
     /\ started' = IF r.path = "crawl" THEN started + 1 ELSE started
     /\ last' = Step(op, force, r.path, r.read,
                     r.read /\ getItemThrows, FALSE,
                     IF r.path = "crawl" THEN started + 1 ELSE 0)
     /\ UNCHANGED <<localStorage, slotOrigin, crawlVars>>

\* buildOrLoad(force) called on the page as it is
BuildOrLoad(force, seeds, sig, getItemThrows) ==
  BuildOrLoadFrom("buildOrLoad", force, seeds, sig, getItemThrows,
                  graph, loadingGraph, inflight)

\* loadPapers resolves and setPapers(csv) re-renders the page; the effect on
\* [cacheSig] calls buildOrLoad(false) when the signature has changed.
\* (The load effect has no cleanup: each time React runs it, on mount and on
\* a strict-mode or fast-refresh re-run, one more setPapers follows.)
PapersLoaded ==
  \E csv \in Catalogues, getItemThrows \in BOOLEAN :
    /\ loads < MaxLoads
    /\ loads' = loads + 1
    /\ papers' = csv
    /\ seedDois' = SeedDoisOf(csv)
    /\ cacheSig' = CacheSigOf(SeedDoisOf(csv))
    /\ UNCHANGED reloads
    /\ IF cacheSig' # cacheSig
       THEN BuildOrLoad(FALSE, seedDois', cacheSig', getItemThrows)
       ELSE /\ last' = Step("setPapers", FALSE, "none", FALSE, FALSE, FALSE, 0)
            /\ UNCHANGED <<graph, loadingGraph, graphErr, localStorage,
                           inflight, started, slotOrigin, crawlVars>>

\* The Rebuild network button: buildOrLoad(true)
RebuildClicked ==
  /\ BuildOrLoad(TRUE, seedDois, cacheSig, FALSE)
  /\ UNCHANGED <<papers, seedDois, cacheSig, loads, reloads>>

Remove(seq, i) == SubSeq(seq, 1, i - 1) \o SubSeq(seq, i + 1, Len(seq))

CrawlResolvedCurrentSig ==
  \E i \in DOMAIN inflight, setItemThrows \in BOOLEAN :
    \E g \in CrawlGraphs(inflight[i].seedDois) :
      LET b == inflight[i]
          saved == SaveCache(localStorage, cacheSig, g, setItemThrows)
      IN /\ graph' = g
         /\ localStorage' = saved.store
         /\ graphErr' = IF saved.threw THEN ErrMessage(QuotaError) ELSE graphErr
         /\ loadingGraph' = FALSE
         /\ inflight' = Remove(inflight, i)
         /\ slotOrigin' = IF setItemThrows THEN slotOrigin
                          ELSE [id |-> b.id, seeds |-> b.seedDois]
         /\ last' = Step("resolved", b.force, "crawl", FALSE, FALSE,
                         setItemThrows, b.id)
         /\ UNCHANGED <<papers, seedDois, cacheSig, started, loads, reloads,
                        crawlVars>>

\* A pending buildCitationGraph resolves with g: setGraph, saveCache, finally
CrawlResolved ==
  \E i \in DOMAIN inflight, setItemThrows \in BOOLEAN :
    \E g \in CrawlGraphs(inflight[i].seedDois) :
      LET b == inflight[i]
          saved == SaveCache(localStorage, b.cacheSig, g, setItemThrows)
      IN /\ graph' = g
         /\ localStorage' = saved.store
         /\ graphErr' = IF saved.threw THEN ErrMessage(QuotaError) ELSE graphErr
         /\ loadingGraph' = FALSE
         /\ inflight' = Remove(inflight, i)
         /\ slotOrigin' = IF setItemThrows THEN slotOrigin
                          ELSE [id |-> b.id, seeds |-> b.seedDois]
         /\ last' = Step("resolved", b.force, "crawl", FALSE, FALSE,
                         setItemThrows, b.id)
         /\ UNCHANGED <<papers, seedDois, cacheSig, started, loads, reloads,
                        crawlVars>>

CrawlRejectedSavesInFinally ==
  \E i \in DOMAIN inflight, e \in CrawlErrors :
    LET b == inflight[i]
    IN /\ graphErr' = ErrMessage(e)
       /\ loadingGraph' = FALSE
       /\ inflight' = Remove(inflight, i)
       /\ localStorage' = SaveCache(localStorage, b.cacheSig, graph, FALSE).store
       /\ last' = Step("rejected", b.force, "crawl", FALSE, FALSE, FALSE, b.id)
       /\ UNCHANGED <<papers, seedDois, cacheSig, graph, started,
                      loads, reloads, slotOrigin, crawlVars>>

CrawlRejectedNoFinally ==
  \E i \in DOMAIN inflight, e \in CrawlErrors :
    LET b == inflight[i]
    IN /\ graphErr' = ErrMessage(e)
       /\ inflight' = Remove(inflight, i)
       /\ last' = Step("rejected", b.force, "crawl", FALSE, FALSE, FALSE, b.id)
       /\ UNCHANGED <<papers, seedDois, cacheSig, graph, loadingGraph,
                      localStorage, started, loads, reloads, slotOrigin,
                      crawlVars>>

\* A pending buildCitationGraph rejects with e: catch, finally
CrawlRejected ==
  \E i \in DOMAIN inflight, e \in CrawlErrors :
    LET b == inflight[i]
    IN /\ graphErr' = ErrMessage(e)
       /\ loadingGraph' = FALSE
       /\ inflight' = Remove(inflight, i)
       /\ last' = Step("rejected", b.force, "crawl", FALSE, FALSE, FALSE, b.id)
       /\ UNCHANGED <<papers, seedDois, cacheSig, graph, localStorage, started,
                      loads, reloads, slotOrigin, crawlVars>>

\* The page is reloaded: the pending calls of the old page are gone, the
\* component state starts afresh (no papers, no graph, not loading) and the
\* mount effect calls buildOrLoad(false); localStorage persists.
Reload ==
  /\ reloads < MaxReloads
  /\ reloads' = reloads + 1
  /\ papers' = <<>>
  /\ seedDois' = SeedDoisOf(<<>>)
  /\ cacheSig' = CacheSigOf(SeedDoisOf(<<>>))
  /\ BuildOrLoadFrom("mount", FALSE, seedDois', cacheSig', FALSE,
                     NullGraph, FALSE, <<>>)
  /\ UNCHANGED loads

Next ==
  \/ PapersLoaded
  \/ RebuildClicked
  \/ CrawlResolved
  \/ CrawlRejected
  \/ Reload

Spec == Init /\ [][Next]_vars

\* --------------------------------------------------- the signature alone
\* The two useMemo computations applied to every paper list up to MaxPapers.
InitSig ==
  /\ papers \in PaperLists(MaxPapers)
  /\ seedDois = SeedDoisOf(papers)
  /\ cacheSig = CacheSigOf(SeedDoisOf(papers))
  /\ graph = NullGraph
  /\ loadingGraph = FALSE
  /\ graphErr = NullErr
  /\ localStorage = [k \in {CACHE_KEY} |-> Absent]
  /\ inflight = <<>>
  /\ started = 0
  /\ loads = 0
  /\ reloads = 0
  /\ slotOrigin = NoOrigin
  /\ last = Step("mount", FALSE, "empty", FALSE, FALSE, FALSE, 0)
  /\ CrawlIdle

\* setPapers(ps) and the re-render's useMemo values, nothing else
SetPapers ==
  \E ps \in PaperLists(MaxPapers) :
    /\ papers' = ps
    /\ seedDois' = SeedDoisOf(ps)
    /\ cacheSig' = CacheSigOf(SeedDoisOf(ps))
    /\ UNCHANGED <<graph, loadingGraph, graphErr, localStorage, inflight,
                   started, loads, reloads, slotOrigin, last, crawlVars>>

NextSig == SetPapers

SpecSig == InitSig /\ [][NextSig]_vars

\* ------------------------------------------------------------------ claims
\* The identifiers of a paper list, as a set.
SeedSet(ps) == {Trim(ps[i]) : i \in DOMAIN ps} \ {<<>>}

Slot == localStorage[CACHE_KEY]

\* C1: two paper lists with the same set of identifiers, in any order and
\* with any duplication, have the same cache signature.
C1_SetEqualSeedsSameSignature ==
  [][SeedSet(papers') = SeedSet(papers) => cacheSig' = cacheSig]_vars

\* the list <<"b", " a ", "b">>: duplicated, unsorted, untrimmed; signature a|b
C1_Witness ==
  /\ papers = <<DoiB, <<" ", "a", " ">>, DoiB>>
  /\ seedDois = <<DoiB, DoiA>>
  /\ cacheSig = <<"a", "|", "b">>

\* The pending call with the given id.
Pending(id) == CHOOSE b \in Range(inflight) : b.id = id

\* The last step was a call of buildOrLoad: by the effect or the button on
\* the page as it was ("buildOrLoad"), or by the mount effect of a fresh page.
CalledBuildOrLoad == last.op \in {"buildOrLoad", "mount"}

\* C2: seed sets that differ as sets have different signatures, so a
\* non-forced build never returns the graph a build stored for another seed
\* set.
C2_DifferentSeedsMissCache ==
  (CalledBuildOrLoad /\ last.path = "hit" /\ slotOrigin.id # 0)
    => Range(slotOrigin.seeds) = Range(seedDois)

\* The stored entry is one tryLoadCache may return for the current signature.
SlotValid ==
  /\ Slot.kind = "obj"
  /\ Slot.hasSig /\ Slot.sig = cacheSig
  /\ Slot.graph.kind = "obj" /\ Slot.graph.hasNodes /\ Slot.graph.hasLinks

\* C3: tryLoadCache returns a graph only if the stored signature equals the
\* current one and the payload has its nodes and links; on a missing,
\* unparsable, unreadable or mismatched entry it returns null, no error is
\* recorded and the build goes on to crawl.
C3_CacheReadNeverFails ==
  (CalledBuildOrLoad /\ last.read) =>
    /\ graphErr = NullErr
    /\ last.path = "hit" => (~last.getItemThrew /\ SlotValid /\ graph = Slot.graph)
    /\ (last.getItemThrew \/ ~SlotValid) =>
         (last.path = "crawl" /\ loadingGraph /\ Len(inflight) > 0)

\* a well-formed entry stored under another signature was read and passed over
C3_Witness ==
  /\ CalledBuildOrLoad /\ last.read /\ ~last.getItemThrew
  /\ last.path = "crawl"
  /\ Slot.kind = "obj" /\ Slot.hasSig /\ Slot.sig # cacheSig
  /\ ShapeOk(Slot.graph)

\* C4: with the entry of a finished build in the store and readable, a
\* buildOrLoad(false) for the same seed set returns the stored graph, starts
\* no crawl and leaves the store as it was.
C4_WarmCacheHit ==
  [][(/\ last'.op = "buildOrLoad" /\ ~last'.force /\ ~last'.getItemThrew
      /\ seedDois' # <<>>
      /\ slotOrigin.id # 0
      /\ Range(slotOrigin.seeds) = Range(seedDois'))
     => (/\ last'.path = "hit"
         /\ graph' = Slot.graph
         /\ graph' \in CrawlGraphs(slotOrigin.seeds)
         /\ inflight' = inflight /\ started' = started
         /\ localStorage' = localStorage
         /\ ~loadingGraph' /\ graphErr' = NullErr)]_vars

\* a hit on the entry of a build whose seeds were listed in another order
C4_Witness ==
  /\ CalledBuildOrLoad /\ ~last.force /\ last.path = "hit"
  /\ slotOrigin.id # 0
  /\ slotOrigin.seeds # seedDois
  /\ Range(slotOrigin.seeds) = Range(seedDois)
  /\ graph = Slot.graph

\* C5: buildOrLoad(true) does not call tryLoadCache and, for a non-empty
\* seed set, always starts a crawl; when that crawl resolves, saveCache
\* replaces the slot by the new graph under the build's signature (unless
\* the write throws, which leaves the slot as it was).
C5_ForcedRebuild ==
  [][/\ (last'.op = "buildOrLoad" /\ last'.force) =>
          /\ ~last'.read
          /\ seedDois' # <<>> =>
               /\ last'.path = "crawl"
               /\ inflight' = Append(inflight, [id |-> last'.id, seedDois |-> seedDois',
                                                cacheSig |-> cacheSig', force |-> TRUE])
               /\ loadingGraph'
     /\ (last'.op = "resolved" /\ last'.force) =>
          IF last'.setItemThrew
          THEN localStorage' = localStorage
          ELSE localStorage'[CACHE_KEY] = Stringify(Pending(last'.id).cacheSig, graph')
    ]_vars

\* a forced build crawls although the store holds a valid entry for its
\* signature
C5_Witness ==
  /\ CalledBuildOrLoad /\ last.force /\ last.path = "crawl"
  /\ SlotValid

\* C6: when the write of the entry throws, the build still succeeds: the
\* built graph is the current graph, this build records no error, the
\* in-progress flag is cleared and the store is as it was.
C6_StoreFailureIgnored ==
  [][(last'.op = "resolved" /\ last'.setItemThrew)
     => (/\ graph' \in CrawlGraphs(Pending(last'.id).seedDois)
         /\ graphErr' = graphErr
         /\ ~loadingGraph'
         /\ localStorage' = localStorage)]_vars

\* a crawl resolved, the write threw, and the page shows the graph
C6_Witness ==
  /\ last.op = "resolved" /\ last.setItemThrew
  /\ graph.kind = "obj" /\ graphErr = NullErr /\ ~loadingGraph
  /\ Slot = Absent

\* C7: the result of a crawl never replaces the entry written by a crawl
\* that was started after it.
C7_NoStaleOverwrite ==
  [][(last'.op = "resolved" /\ slotOrigin.id > last'.id)
     => localStorage' = localStorage]_vars

\* C8: at most one crawl is in flight per signature.
C8_SingleFlightPerSignature ==
  \A i, j \in DOMAIN inflight :
    i # j => inflight[i].cacheSig # inflight[j].cacheSig

\* C9 as stated: with no seeds, buildOrLoad yields an empty Graph, records no
\* error, starts no crawl and does not read the cache.
C9_EmptySeedsEmptyGraph ==
  (CalledBuildOrLoad /\ seedDois = <<>>) =>
    /\ graph = MkGraph(<<>>, <<>>)
    /\ graphErr = NullErr
    /\ ~last.read /\ last.path = "empty"

\* C9 amended: with no seeds, buildOrLoad (forced or not) sets the current
\* graph to null, records no error, starts no crawl and neither reads nor
\* writes the cache.
C9_EmptySeedsNoGraph ==
  [][(last'.op \in {"buildOrLoad", "mount"} /\ seedDois' = <<>>)
     => (/\ graph' = NullGraph
         /\ graphErr' = NullErr
         /\ last'.path = "empty" /\ ~last'.read
         /\ started' = started
         /\ inflight' = IF last'.op = "mount" THEN <<>> ELSE inflight
         /\ localStorage' = localStorage)]_vars

\* the papers are loaded, none has a DOI, and Rebuild network is clicked
C9_Witness ==
  /\ last.op = "buildOrLoad" /\ last.force /\ last.path = "empty"
  /\ seedDois = <<>> /\ papers # <<>>
  /\ graph = NullGraph /\ graphErr = NullErr

\* The stored entry carries the current signature and a graph object.
SlotForCurrentSig ==
  /\ Slot.kind = "obj" /\ Slot.hasSig /\ Slot.sig = cacheSig
  /\ Slot.graph.kind = "obj"

ContainerMissing(g) == ~g.hasNodes \/ ~g.hasLinks

ContainerEmpty(g) ==
  \/ (g.hasNodes /\ Len(g.nodes) = 0)
  \/ (g.hasLinks /\ Len(g.links) = 0)

\* C10 as stated: an entry for the current signature whose node or link
\* container is empty or missing is ignored and a fresh crawl starts.
C10_EmptyOrMissingContainersIgnored ==
  (/\ CalledBuildOrLoad /\ last.read /\ ~last.getItemThrew
   /\ SlotForCurrentSig
   /\ (ContainerMissing(Slot.graph) \/ ContainerEmpty(Slot.graph)))
    => last.path = "crawl"

\* C10 amended: an entry for the current signature whose node or link
\* container is missing is ignored and a fresh crawl starts; one whose
\* containers are both present is returned even when they are empty.
C10_MissingContainersIgnored ==
  (/\ CalledBuildOrLoad /\ last.read /\ ~last.getItemThrew
   /\ SlotForCurrentSig)
    => IF ContainerMissing(Slot.graph)
       THEN last.path = "crawl" /\ loadingGraph /\ Len(inflight) > 0
       ELSE last.path = "hit" /\ graph = Slot.graph

\* an entry for the current signature without a link container was passed
\* over
C10_Witness ==
  /\ CalledBuildOrLoad /\ last.read /\ ~last.getItemThrew
  /\ SlotForCurrentSig
  /\ Slot.graph.hasNodes /\ ~Slot.graph.hasLinks
  /\ last.path = "crawl"

\* The messages setGraphErr may record for a rejected crawl.
CrawlErrorMessages == {ErrMessage(e) : e \in CrawlErrors}

\* C15: the slot is written when a crawl resolves (unless the write throws)
\* and at no other step; a build whose crawl rejects records the error
\* message, clears the in-progress flag and leaves the slot as it was.
C15_CacheWrittenOnlyOnSuccess ==
  [][/\ localStorage' # localStorage =>
          (last'.op = "resolved" /\ ~last'.setItemThrew)
     /\ (last'.op = "resolved" /\ ~last'.setItemThrew) =>
          localStorage'[CACHE_KEY] = Stringify(Pending(last'.id).cacheSig, graph')
     /\ last'.op = "rejected" =>
          /\ graphErr' \in CrawlErrorMessages
          /\ ~loadingGraph'
          /\ localStorage' = localStorage
          /\ slotOrigin' = slotOrigin
    ]_vars

\* a crawl failed while the slot held the entry of an earlier build
C15_Witness ==
  /\ last.op = "rejected"
  /\ graphErr \in CrawlErrorMessages /\ ~loadingGraph
  /\ slotOrigin.id # 0 /\ slotOrigin.id # last.id
  /\ Slot = Stringify(CacheSigOf(slotOrigin.seeds), Slot.graph)

\* C16: the entry a build wrote holds a graph crawled from the seeds the build
\* was started with, under the signature of those seeds, whatever the
\* current seed set is.
C16_SlotSignatureMatchesItsGraph ==
  slotOrigin.id # 0 =>
    /\ Slot.kind = "obj" /\ Slot.hasSig
    /\ Slot.sig = CacheSigOf(slotOrigin.seeds)
    /\ Slot.graph \in CrawlGraphs(slotOrigin.seeds)

\* a crawl finished after the seed set had changed and its entry carries the
\* signature of its own seeds, not the current one
C16_Witness ==
  /\ last.op = "resolved" /\ ~last.setItemThrew
  /\ slotOrigin.id = last.id
  /\ Range(slotOrigin.seeds) # Range(seedDois)
  /\ seedDois # <<>>
  /\ Slot.sig # cacheSig
  /\ Slot.sig = CacheSigOf(slotOrigin.seeds)

\* C17: the result of a crawl started for another seed set than the current
\* one never becomes or replaces the current graph.
C17_StaleCrawlNotDisplayed ==
  [][(/\ last'.op = "resolved"
      /\ Range(Pending(last'.id).seedDois) # Range(seedDois'))
     => graph' = graph]_vars

\* C18: loadingGraph is true whenever a crawl is in flight.
C18_LoadingWhileInFlight ==
  Len(inflight) > 0 => loadingGraph

\* The last step settled a build: its crawl resolved or rejected.
Settled == last.op \in {"resolved", "rejected"}

\* C19 as stated: once all started builds have settled, loadingGraph is false
\* and exactly one of 'current graph present' and 'error recorded' holds.
C19_ExactlyOneOutcome ==
  (Settled /\ inflight = <<>>) =>
    /\ ~loadingGraph
    /\ (graph.kind = "obj") # graphErr.set

\* C19 amended: every cache hit and every settling of a crawl (resolved, with
\* or without a store failure, or rejected) clears the in-progress flag; once
\* all started builds have settled loadingGraph is false, and the last build
\* to finish left its graph as the current graph if it resolved and its
\* error message in graphErr if it rejected (the other of the two may still
\* hold what an earlier build left).
C19_SettledBuildsClearLoading ==
  [][/\ (last'.op \in {"resolved", "rejected"} \/ last'.path = "hit")
          => ~loadingGraph'
     /\ inflight' = <<>> => ~loadingGraph'
     /\ last'.op = "resolved" =>
          graph' \in CrawlGraphs(Pending(last'.id).seedDois)
     /\ last'.op = "rejected" =>
          (graphErr' \in CrawlErrorMessages /\ graph' = graph)
    ]_vars

\* the last pending build rejected after an earlier one had resolved: the
\* flag is cleared, the error is recorded and the earlier graph is still held
C19_Witness ==
  /\ last.op = "rejected" /\ inflight = <<>>
  /\ ~loadingGraph
  /\ graphErr.set /\ graph.kind = "obj"

\* ---------------------------------------------------------------------------
\* The citation crawler: buildCitationGraph({seedDois, titlesByDoi, maxDepth,
\* maxRefsPerNode, delayMs}), the breadth-first, depth-bounded crawl that the
\* page awaits.  Titles and the pacing delay do not bear on the graph's nodes,
\* depths and links and are left out.
\* ---------------------------------------------------------------------------

\* Largest maxDepth and maxRefsPerNode a crawl is started with, next to the
\* values the page passes.
MaxDepth == 2
MaxFanout == 2

\* maxDepth: 3 and maxRefsPerNode: 30 of the page's call
PageMaxDepth == 3
PageMaxRefsPerNode == 30

DoiC == <<"c">>
BlankDoi == <<" ">>

Link(source, target) == [source |-> source, target |-> target]

\* What the provider answers to one lookup: a LookupError, or an ordered list
\* of references.
LookupError == [ok |-> FALSE, references |-> <<>>]
Found(refs) == [ok |-> TRUE, references |-> refs]

\* Reference lists a provider may return: none, one, a back-reference with a
\* self-citation, a duplicate, a blank entry, and more than the fan-out cap.
ReferenceLists ==
  { <<>>,
    <<DoiB>>,
    <<DoiC>>,
    <<RefDoi>>,
    <<DoiA, DoiB>>,
    <<DoiC, DoiC>>,
    <<BlankDoi, DoiC>>,
    <<DoiB, DoiC, RefDoi>> }

ProviderAnswers == {LookupError} \cup {Found(refs) : refs \in ReferenceLists}

\* The seedDois a crawl may be given: trimmed, distinct, in catalogue order.
SeedLists == {<<>>, <<DoiA>>, <<DoiB>>, <<DoiA, DoiB>>, <<DoiB, DoiA>>}

\* The first n elements of xs
Take(xs, n) == SubSeq(xs, 1, IF n < Len(xs) THEN n ELSE Len(xs))

\* The Fetcher: a LookupError is passed on, a reference list is cut to its
\* first maxRefsPerNode entries in provider order.
Fetch(answer, cap) ==
  IF answer.ok THEN Found(Take(answer.references, cap)) ELSE answer

NodeIds(ns) == {ns[i].id : i \in DOMAIN ns}

Entry(id, depth) == [id |-> id, depth |-> depth]

\* Step 1: every seed is a node at depth 0, visited, and on the frontier.
RECURSIVE SeedNodes(_)
SeedNodes(seeds) ==
  IF seeds = <<>> THEN <<>>
  ELSE <<Node(Head(seeds), 0)>> \o SeedNodes(Tail(seeds))

ShouldExpandAlways(depth, limit) == TRUE

\* Step 2: an entry at depth >= maxDepth is not expanded.
ShouldExpand(depth, limit) == depth < limit

\* Step 3: a new node is put on the frontier only if depth + 1 < maxDepth.
ShouldEnqueue(depth, limit) == depth + 1 < limit

\* The crawl's working state as one value
CrawlState(ns, ls, seen, queue, enq) ==
  [nodes |-> ns, links |-> ls, visited |-> seen, frontier |-> queue,
   enqueued |-> enq, error |-> FALSE]

AddReferenceNodeOnlyIfEnqueued(st, id, depth, ref, limit) ==
  LET r == Trim(ref)
      l == Link(id, r)
      withLink == IF l \in Range(st.links) THEN st.links
                  ELSE Append(st.links, l)
  IN IF r = <<>> \/ r = id THEN st
     ELSE IF r \in st.visited \/ ~ShouldEnqueue(depth, limit)
            THEN [st EXCEPT !.links = withLink]
     ELSE [st EXCEPT !.links = withLink,
                     !.nodes = Append(@, Node(r, depth + 1)),
                     !.visited = @ \cup {r},
                     !.frontier = Append(@, Entry(r, depth + 1)),
                     !.enqueued = Append(@, r)]

AddReferenceNoVisitedCheck(st, id, depth, ref, limit) ==
  LET r == Trim(ref)
      l == Link(id, r)
      withLink == IF l \in Range(st.links) THEN st.links
                  ELSE Append(st.links, l)
      enqueue == ShouldEnqueue(depth, limit)
  IN IF r = <<>> \/ r = id THEN st
     ELSE [st EXCEPT !.links = withLink,
                     !.nodes = IF r \in NodeIds(@) THEN @
                               ELSE Append(@, Node(r, depth + 1)),
                     !.visited = @ \cup {r},
                     !.frontier = IF enqueue
                                    THEN Append(@, Entry(r, depth + 1))
                                    ELSE @,
                     !.enqueued = IF enqueue THEN Append(@, r) ELSE @]

\* Step 3 for one reference of node `id` at `depth`: a blank reference and a
\* self-citation are dropped; the link is inserted once; a reference not yet
\* visited becomes a node at depth + 1 and is visited, and joins the frontier
\* only below maxDepth.
AddReference(st, id, depth, ref, limit) ==
  LET r == Trim(ref)
      l == Link(id, r)
      withLink == IF l \in Range(st.links) THEN st.links
                  ELSE Append(st.links, l)
      enqueue == ShouldEnqueue(depth, limit)
  IN IF r = <<>> \/ r = id THEN st
     ELSE IF r \in st.visited THEN [st EXCEPT !.links = withLink]
     ELSE [st EXCEPT !.links = withLink,
                     !.nodes = Append(@, Node(r, depth + 1)),
                     !.visited = @ \cup {r},
                     !.frontier = IF enqueue
                                    THEN Append(@, Entry(r, depth + 1))
                                    ELSE @,
                     !.enqueued = IF enqueue THEN Append(@, r) ELSE @]

\* The references of one node, in provider order
RECURSIVE AddReferences(_, _, _, _, _)
AddReferences(st, id, depth, refs, limit) ==
  IF refs = <<>> THEN st
  ELSE AddReferences(AddReference(st, id, depth, Head(refs), limit),
                     id, depth, Tail(refs), limit)

ExpandRethrows(st, id, depth, answer, limit) ==
  IF answer.ok THEN AddReferences(st, id, depth, answer.references, limit)
  ELSE [st EXCEPT !.error = TRUE]

\* Step 3 for one dequeued entry: on success its references are added; a
\* LookupError counts as zero references and the crawl goes on.
Expand(st, id, depth, answer, limit) ==
  IF answer.ok THEN AddReferences(st, id, depth, answer.references, limit)
  ELSE st

\* The page while a crawl is stepped on its own
PageIdle ==
  /\ papers = <<>>
  /\ seedDois = SeedDoisOf(<<>>)
  /\ cacheSig = CacheSigOf(SeedDoisOf(<<>>))
  /\ graph = NullGraph
  /\ loadingGraph = FALSE
  /\ graphErr = NullErr
  /\ localStorage = [k \in {CACHE_KEY} |-> Absent]
  /\ inflight = <<>>
  /\ started = 0
  /\ loads = 0
  /\ reloads = 0
  /\ slotOrigin = NoOrigin
  /\ last = Step("mount", FALSE, "empty", FALSE, FALSE, FALSE, 0)

\* A crawl after step 1, for any seeds, depth bound and fan-out cap
InitCrawl ==
  /\ PageIdle
  /\ crawlSeeds \in SeedLists
  /\ maxDepth \in (0 .. MaxDepth) \cup {PageMaxDepth}
  /\ maxRefsPerNode \in (0 .. MaxFanout) \cup {PageMaxRefsPerNode}
  /\ nodes = SeedNodes(crawlSeeds)
  /\ links = <<>>
  /\ visited = Range(crawlSeeds)
  /\ frontier = nodes
  /\ status = "running"
  /\ failed = {}
  /\ enqueued = crawlSeeds
  /\ dequeued = <<>>

\* The working state once the head of the frontier has been dequeued
Dequeued == CrawlState(nodes, links, visited, Tail(frontier), enqueued)

\* The crawl's variables take the values of working state st
Becomes(st) ==
  /\ nodes' = st.nodes
  /\ links' = st.links
  /\ visited' = st.visited
  /\ frontier' = st.frontier
  /\ enqueued' = st.enqueued
  /\ status' = IF st.error THEN "error" ELSE "running"

\* Step 2: the dequeued entry is at depth >= maxDepth and is skipped.
CrawlSkip ==
  /\ status = "running"
  /\ frontier # <<>>
  /\ ~ShouldExpand(Head(frontier).depth, maxDepth)
  /\ Becomes(Dequeued)
  /\ dequeued' = Append(dequeued, Head(frontier).id)
  /\ UNCHANGED <<pageVars, crawlSeeds, maxDepth, maxRefsPerNode, failed>>

\* Step 3, the lookup succeeded: the dequeued entry is expanded.
CrawlFetched ==
  /\ status = "running"
  /\ frontier # <<>>
  /\ ShouldExpand(Head(frontier).depth, maxDepth)
  /\ \E refs \in ReferenceLists :
       Becomes(Expand(Dequeued, Head(frontier).id, Head(frontier).depth,
                      Fetch(Found(refs), maxRefsPerNode), maxDepth))
  /\ dequeued' = Append(dequeued, Head(frontier).id)
  /\ UNCHANGED <<pageVars, crawlSeeds, maxDepth, maxRefsPerNode, failed>>

\* Step 3, the lookup failed with a LookupError.
CrawlLookupFailed ==
  /\ status = "running"
  /\ frontier # <<>>
  /\ ShouldExpand(Head(frontier).depth, maxDepth)
  /\ Becomes(Expand(Dequeued, Head(frontier).id, Head(frontier).depth,
                    Fetch(LookupError, maxRefsPerNode), maxDepth))
  /\ dequeued' = Append(dequeued, Head(frontier).id)
  /\ failed' = failed \cup {Head(frontier).id}
  /\ UNCHANGED <<pageVars, crawlSeeds, maxDepth, maxRefsPerNode>>

\* The frontier is empty: the loop ends and the graph is returned.
CrawlReturn ==
  /\ status = "running"
  /\ frontier = <<>>
  /\ status' = "done"
  /\ UNCHANGED <<pageVars, crawlSeeds, maxDepth, maxRefsPerNode, nodes, links,
                 visited, frontier, failed, enqueued, dequeued>>

NextCrawl ==
  \/ CrawlSkip
  \/ CrawlFetched
  \/ CrawlLookupFailed
  \/ CrawlReturn

\* A crawl is one sequential loop whose every lookup has a bounded wait, so a
\* step that can be taken is taken.
SpecCrawl == InitCrawl /\ [][NextCrawl]_vars /\ WF_vars(NextCrawl)

\* ---------------------------------------------------------------------------
\* Claims about the crawler
\* ---------------------------------------------------------------------------

LinksIn(ls, ids) == {l \in Range(ls) : l.source \in ids}

\* C11: a failed lookup never aborts the crawl.  After every step the crawl
\* has raised no error, each identifier whose lookup failed is a node with no
\* outgoing link, and the step of a failed lookup leaves the nodes, links,
\* visited set and frontier exactly as a lookup returning zero references
\* would.
C11_LookupFailureIsZeroReferences ==
  [][/\ status' # "error"
     /\ failed' \subseteq NodeIds(nodes')
     /\ LinksIn(links', failed') = {}
     /\ failed' # failed =>
          LET zero == Expand(Dequeued, Head(frontier).id, Head(frontier).depth,
                             Fetch(Found(<<>>), maxRefsPerNode), maxDepth)
          IN <<nodes', links', visited', frontier'>> =
               <<zero.nodes, zero.links, zero.visited, zero.frontier>>
    ]_vars

\* C11 witness: seeds [a, b], every lookup of b failed, a returned [c],
\* maxDepth 2: the crawl is done with nodes a, b, c and the one link a -> c.
C11_Witness ==
  /\ status = "done"
  /\ crawlSeeds = <<DoiA, DoiB>> /\ maxDepth = 2
  /\ failed = {DoiB}
  /\ nodes = <<Node(DoiA, 0), Node(DoiB, 0), Node(DoiC, 1)>>
  /\ links = <<Link(DoiA, DoiC)>>

\* C12: in every state of a crawl, finished or not, the source and the target
\* of each link are both nodes of the graph.
C12_LinkEndpointsAreNodes ==
  \A l \in Range(links) :
    l.source \in NodeIds(nodes) /\ l.target \in NodeIds(nodes)

\* C12 witness: a crawl still running, with work left on the frontier, holds
\* a link to a node that sits at depth maxDepth and was never enqueued.
C12_Witness ==
  /\ status = "running" /\ frontier # <<>>
  /\ \E l \in Range(links) :
       /\ Node(l.target, maxDepth) \in Range(nodes)
       /\ l.target \notin Range(enqueued)

\* The least number of links from any identifier of `reached` to `target`,
\* having already walked k links; -1 if there is no path.
RECURSIVE MinHops(_, _, _, _)
MinHops(reached, k, target, ls) ==
  LET next == reached \cup {l.target : l \in LinksIn(ls, reached)}
  IN IF target \in reached THEN k
     ELSE IF next = reached THEN 0 - 1
     ELSE MinHops(next, k + 1, target, ls)

DepthOf(id) == (CHOOSE n \in Range(nodes) : n.id = id).depth

\* C13: every node's depth is the least number of hops from a seed along the
\* discovered links and is at most maxDepth, and no link leaves a node at
\* depth maxDepth.
C13_DepthIsMinHopsAndCapped ==
  /\ \A n \in Range(nodes) :
       /\ n.depth = MinHops(Range(crawlSeeds), 0, n.id, links)
       /\ n.depth <= maxDepth
  /\ \A l \in Range(links) :
       l.source \in NodeIds(nodes) => DepthOf(l.source) < maxDepth

\* C13 witness: seed a, chain a -> b -> c, maxDepth 2: the crawl is done, c is
\* a node at depth 2 that was never looked up and has no outgoing link.
C13_Witness ==
  /\ status = "done"
  /\ crawlSeeds = <<DoiA>> /\ maxDepth = 2
  /\ nodes = <<Node(DoiA, 0), Node(DoiB, 1), Node(DoiC, 2)>>
  /\ links = <<Link(DoiA, DoiB), Link(DoiB, DoiC)>>
  /\ DoiC \notin Range(dequeued)

NoRepeat(xs) == \A i, j \in DOMAIN xs : xs[i] = xs[j] => i = j

\* C14: the crawl terminates.  No identifier is put on the frontier twice or
\* taken off it twice, and in every run the frontier ends empty and the crawl
\* returns.
C14_CrawlTerminates ==
  /\ [](NoRepeat(enqueued) /\ NoRepeat(dequeued))
  /\ <>(status = "done" /\ frontier = <<>>)

\* C14 witness: a crawl over a cycle a -> b -> a has returned, each of the two
\* identifiers enqueued once and dequeued once.
C14_Witness ==
  /\ status = "done" /\ frontier = <<>>
  /\ Link(DoiA, DoiB) \in Range(links) /\ Link(DoiB, DoiA) \in Range(links)
  /\ enqueued = <<DoiA, DoiB>> /\ dequeued = <<DoiA, DoiB>>

====
